---- MODULE Spec2Model ----
(***************************************************************************)
(* DynamicCoupled (sharpy/solvers/dynamiccoupled.py): the time-marching    *)
(* fluid-structure coupling driver.  The model follows initialise(),       *)
(* cleanup_timestep_info(), run(), convergence(), map_forces(),            *)
(* relaxation_factor() and relax() statement by statement.  The aero       *)
(* solver, the structural solver and the postprocessors are collaborators: *)
(* what they return is drawn from small sets.                              *)
(*                                                                         *)
(* Encoding of numbers.  Vector entries are integers; NaN is one reserved  *)
(* integer.  Euclidean norms are held squared (np.linalg.norm(v)^2), a     *)
(* relative residual norm(a-b)/base is held as the pair of the squared     *)
(* numerator and the squared base, and a comparison res < tol is decided   *)
(* on the squares.  Floats that the code multiplies and adds (forces,      *)
(* relaxation factors, ramp coefficients) are exact fractions <<n, d>>.    *)
(***************************************************************************)
EXTENDS Integers, Sequences, FiniteSets, TLC

(* ---------------------------- bounds ----------------------------------- *)
MaxTimeSteps == 2
MaxSubsteps == 3
MaxMinSteps == 2
MaxInitLen == 2
VecLen == 2
MaxPostprocs == 2
RampSubsteps == 6
RampInitLen == 5
MaxSolves == 4
MaxRelaxSteps == 2
OverrideSubsteps == 11

(* ------------------------ program constants ---------------------------- *)
NaN == 1000000
RampPoints == 5
StartupSteps == 5
UnsteadyMinSubsteps == 5

(* ------------------------ exact fractions ------------------------------ *)
Abs(x) == IF x < 0 THEN 0 - x ELSE x

RECURSIVE GCD(_, _)
GCD(a, b) == IF b = 0 THEN a ELSE GCD(b, a % b)

Frac(n, d) ==
    LET s == IF d < 0 THEN 0 - 1 ELSE 1
        g == GCD(Abs(n), Abs(d))
    IN  <<(s * n) \div g, (s * d) \div g>>

FAdd(a, b) == Frac(a[1] * b[2] + b[1] * a[2], a[2] * b[2])
FSub(a, b) == Frac(a[1] * b[2] - b[1] * a[2], a[2] * b[2])
FMul(a, b) == Frac(a[1] * b[1], a[2] * b[2])
FDivInt(a, n) == Frac(a[1], a[2] * n)
FZero == <<0, 1>>
FOne == <<1, 1>>
\* a <= b for fractions with positive denominators
FLeq(a, b) == a[1] * b[2] <= b[1] * a[2]

(* ------------------------ vectors and norms ---------------------------- *)
Vec(x) == [i \in 1..VecLen |-> x]
NaNVec == [i \in 1..VecLen |-> IF i = 1 THEN NaN ELSE 1]

isfinite(x) == x # NaN
AllFinite(v) == \A i \in DOMAIN v : isfinite(v[i])

RECURSIVE SumSq(_, _)
SumSq(v, n) == IF n = 0 THEN 0 ELSE v[n] * v[n] + SumSq(v, n - 1)

\* np.linalg.norm(v), squared; NaN as soon as one entry is NaN
NormSq(v) == IF AllFinite(v) THEN SumSq(v, Len(v)) ELSE NaN

\* np.linalg.norm(a - b), squared
DiffNormSq(a, b) ==
    IF AllFinite(a) /\ AllFinite(b)
    THEN SumSq([i \in DOMAIN a |-> a[i] - b[i]], Len(a))
    ELSE NaN

\* norm(a - b)/base as <<numerator^2, base^2>>
Residual(a, b, base2) == <<DiffNormSq(a, b), base2>>

\* res < tol for floats: false for nan and inf (a zero or NaN base, a NaN norm)
ResBelow(res, tol) ==
    /\ isfinite(res[1])
    /\ isfinite(res[2])
    /\ res[2] > 0
    /\ res[1] * tol[2] * tol[2] < tol[1] * tol[1] * res[2]

(* ------------------------ timestep states ------------------------------ *)
StructState(q, dqdt, dqddt, sf, uf) ==
    [q |-> Vec(q), dqdt |-> Vec(dqdt), dqddt |-> Vec(dqddt),
     steady_applied_forces |-> sf, unsteady_applied_forces |-> uf]

AeroState(zeta, f, df) == [zeta |-> zeta, forces |-> f, dynamic_forces |-> df]

\* the entries a previous phase left in the histories: entry i is marked by i
SeedStruct(i) == StructState(i + 1, i + 1, 1, <<i, 1>>, FZero)
SeedAero(i) == AeroState(Vec(i + 1), i, 0)
SeedStructHistory(n) == [i \in 1..n |-> SeedStruct(i)]
SeedAeroHistory(n) == [i \in 1..n |-> SeedAero(i)]

\* what add_step() appends before the core overwrites it
StructPlaceholder == StructState(0, 0, 0, FZero, FZero)
AeroPlaceholder == AeroState(Vec(0), 0, 0)

\* a local name of run() that no statement has assigned yet
Unbound == [unbound |-> TRUE]

Last(h) == h[Len(h)]
SetLast(h, e) == [h EXCEPT ![Len(h)] = e]

(* ------------------------ settings ------------------------------------- *)
\* The entries of self.settings are boxed values (read through .value, lines
\* 217-384; written as ct.c_double at line 155).  Line 223 compares the box
\* itself with 0: "not self.settings['fsi_substeps'] == 0".  A ctypes value has
\* no __eq__, so box == 0 is an identity test and is False whatever .value
\* holds; the negation is True for every setting.
not_fsi_substeps_eq_0(s) == TRUE

(* ------------------------ cleanup_timestep_info ------------------------- *)
Max(a, b) == IF a > b THEN a ELSE b

\* "while len(h) - 1: del h[-1]"
RECURSIVE DeleteRest(_)
DeleteRest(h) == IF Len(h) - 1 # 0 THEN DeleteRest(SubSeq(h, 1, Len(h) - 1)) ELSE h

\* variant: the rest is deleted without copying the last entry to slot 0
cleanup_keep_first(aero, struct, cursor) ==
    IF Max(Len(aero), Len(struct)) > 1
    THEN [aero |-> DeleteRest(aero), struct |-> DeleteRest(struct), ts |-> 0]
    ELSE [aero |-> aero, struct |-> struct, ts |-> 0]

\* returns the histories and the time cursor as the method leaves them
cleanup_timestep_info(aero, struct, cursor) ==
    IF Max(Len(aero), Len(struct)) > 1
    THEN [aero |-> DeleteRest([aero EXCEPT ![1] = Last(aero)]),
          struct |-> DeleteRest([struct EXCEPT ![1] = Last(struct)]),
          ts |-> 0]
    ELSE [aero |-> aero, struct |-> struct, ts |-> 0]

(* ------------------------ unsteady force ramp --------------------------- *)
\* np.linspace(start, stop, num)[i] for 0 <= i < num
linspace(start, stop, num, i) ==
    FAdd(start, FDivInt(FMul(<<i, 1>>, FSub(stop, start)), num - 1))

\* variant: the start-up suppression of line 239 is missing
ForceCoeff_no_startup(s, cursor, kk) ==
    IF s.include_unsteady_force_contribution
    THEN IF kk < RampPoints
         THEN linspace(FZero, FOne, RampPoints, kk)
         ELSE FOne
    ELSE FZero

\* lines 233-240
ForceCoeff(s, cursor, kk) ==
    LET ramp == IF s.include_unsteady_force_contribution
                THEN IF kk < RampPoints
                     THEN linspace(FZero, FOne, RampPoints, kk)
                     ELSE FOne
                ELSE FZero
    IN  IF cursor < StartupSteps THEN FZero ELSE ramp

\* lines 243-246
UnsteadyContribution(coeff) == ~(coeff = FZero)

(* ------------------------ force mapping --------------------------------- *)
\* mapping.aero2struct_force_mapping: one panel loads one node
aero2struct_force_mapping(f) == <<f, 1>>

ini_steady_applied_forces == FZero
dynamic_input_forces(i) == FZero

map_forces(aero_step, struct_step, unsteady_forces_coeff, cursor) ==
    LET struct_forces == aero2struct_force_mapping(aero_step.forces)
        dynamic_struct_forces ==
            FMul(unsteady_forces_coeff,
                 aero2struct_force_mapping(aero_step.dynamic_forces))
    IN  [struct_step EXCEPT
            !.steady_applied_forces = FAdd(struct_forces, ini_steady_applied_forces),
            !.unsteady_applied_forces =
                FAdd(dynamic_struct_forces, dynamic_input_forces(Max(cursor - 1, 0)))]

(* ------------------------ relaxation ------------------------------------ *)
\* variant: the slope of the interpolation has the wrong sign
relaxation_factor_wrong_slope(s, kk) ==
    LET initial == s.relaxation_factor
        final == s.final_relaxation_factor
    IN  IF ~s.dynamic_relaxation THEN initial
        ELSE IF kk >= s.relaxation_steps THEN final
        ELSE FSub(initial,
                  FMul(FDivInt(FSub(final, initial), s.relaxation_steps), <<kk, 1>>))

\* lines 375-385
relaxation_factor(s, kk) ==
    LET initial == s.relaxation_factor
        final == s.final_relaxation_factor
    IN  IF ~s.dynamic_relaxation THEN initial
        ELSE IF kk >= s.relaxation_steps THEN final
        ELSE FAdd(initial,
                  FMul(FDivInt(FSub(final, initial), s.relaxation_steps), <<kk, 1>>))

\* variant: the weights of the two states are exchanged
relax_weights_swapped(timestep, previous_timestep, coeff) ==
    [timestep EXCEPT
        !.steady_applied_forces =
            FAdd(FMul(coeff, timestep.steady_applied_forces),
                 FMul(FSub(FOne, coeff), previous_timestep.steady_applied_forces)),
        !.unsteady_applied_forces =
            FAdd(FMul(coeff, timestep.unsteady_applied_forces),
                 FMul(FSub(FOne, coeff), previous_timestep.unsteady_applied_forces))]

\* lines 388-392
relax(timestep, previous_timestep, coeff) ==
    [timestep EXCEPT
        !.steady_applied_forces =
            FAdd(FMul(FSub(FOne, coeff), timestep.steady_applied_forces),
                 FMul(coeff, previous_timestep.steady_applied_forces)),
        !.unsteady_applied_forces =
            FAdd(FMul(FSub(FOne, coeff), timestep.unsteady_applied_forces),
                 FMul(coeff, previous_timestep.unsteady_applied_forces))]

\* lines 265-268: the value the local relax_factor holds after the blend
relax_factor_override(s, kk, factor) ==
    IF 10 * kk > 9 * s.fsi_substeps THEN <<3, 10>>
    ELSE IF 10 * kk > 8 * s.fsi_substeps THEN <<4, 5>>
    ELSE factor

(* ------------------------ convergence ----------------------------------- *)
\* self.res, self.res_dqdt, self.res_dqddt after __init__ (0.0); the base_*
\* attributes do not exist before the first call
NoBase == 0 - 1
InitMonitor ==
    [base_q |-> NoBase, base_dqdt |-> NoBase, base_dqddt |-> NoBase,
     res |-> <<0, 1>>, res_dqdt |-> <<0, 1>>, res_dqddt |-> <<0, 1>>]

\* line 308: the exception; lines 312-315: the baseline branch; line 320:
\* the unsteady gate.  Each result holds raised = an exception left the call,
\* ret = the returned flag, mon = the attributes of self afterwards, path =
\* the return statement reached
Raise(mon) == [raised |-> TRUE, ret |-> FALSE, mon |-> mon, path |-> "raise"]
Gate(mon) == [raised |-> FALSE, ret |-> FALSE, mon |-> mon, path |-> "gate"]
BaseBranch(mon, tstep) ==
    [raised |-> FALSE, ret |-> FALSE,
     mon |-> [mon EXCEPT !.base_q = NormSq(tstep.q),
                         !.base_dqdt = NormSq(tstep.dqdt),
                         !.base_dqddt = NormSq(tstep.dqddt)],
     path |-> "base"]

\* lines 323-331: the relative residuals
residuals(mon, tstep, previous_tstep) ==
    [mon EXCEPT
        !.res = Residual(tstep.q, previous_tstep.q, mon.base_q),
        !.res_dqdt = Residual(tstep.dqdt, previous_tstep.dqdt, mon.base_dqdt),
        !.res_dqddt = Residual(tstep.dqddt, previous_tstep.dqddt, mon.base_dqddt)]

\* lines 334-340: the gate on the residuals
converged(s, m, kk) ==
    /\ kk > s.minimum_steps - 1
    /\ ResBelow(m.res, s.fsi_tolerance)
    /\ ResBelow(m.res_dqdt, s.fsi_tolerance)

Returned(m, flag) == [raised |-> FALSE, ret |-> flag, mon |-> m, path |-> "residual"]

\* variant: the gate reads k > minimum_steps
convergence_gate_late(s, mon, kk, tstep, previous_tstep) ==
    IF ~AllFinite(tstep.q) THEN Raise(mon)
    ELSE IF kk = 0 THEN BaseBranch(mon, tstep)
    ELSE IF s.include_unsteady_force_contribution /\ kk < UnsteadyMinSubsteps
    THEN Gate(mon)
    ELSE LET m == residuals(mon, tstep, previous_tstep)
         IN  Returned(m, /\ kk > s.minimum_steps
                         /\ ResBelow(m.res, s.fsi_tolerance)
                         /\ ResBelow(m.res_dqdt, s.fsi_tolerance))

\* variant: the baseline branch comes before the finiteness test
convergence_base_first(s, mon, kk, tstep, previous_tstep) ==
    IF kk = 0 THEN BaseBranch(mon, tstep)
    ELSE IF ~AllFinite(tstep.q) THEN Raise(mon)
    ELSE IF s.include_unsteady_force_contribution /\ kk < UnsteadyMinSubsteps
    THEN Gate(mon)
    ELSE LET m == residuals(mon, tstep, previous_tstep)
         IN  Returned(m, converged(s, m, kk))

\* variant: the velocity residual is left out of the gate
convergence_ignores_dqdt(s, mon, kk, tstep, previous_tstep) ==
    IF ~AllFinite(tstep.q) THEN Raise(mon)
    ELSE IF kk = 0 THEN BaseBranch(mon, tstep)
    ELSE IF s.include_unsteady_force_contribution /\ kk < UnsteadyMinSubsteps
    THEN Gate(mon)
    ELSE LET m == residuals(mon, tstep, previous_tstep)
         IN  Returned(m, /\ kk > s.minimum_steps - 1
                         /\ ResBelow(m.res, s.fsi_tolerance))

\* variant: the baseline is recorded by the first evaluation only
convergence_base_once(s, mon, kk, tstep, previous_tstep) ==
    IF ~AllFinite(tstep.q) THEN Raise(mon)
    ELSE IF kk = 0
    THEN IF mon.base_q = NoBase THEN BaseBranch(mon, tstep)
         ELSE [raised |-> FALSE, ret |-> FALSE, mon |-> mon, path |-> "base"]
    ELSE IF s.include_unsteady_force_contribution /\ kk < UnsteadyMinSubsteps
    THEN Gate(mon)
    ELSE LET m == residuals(mon, tstep, previous_tstep)
         IN  Returned(m, converged(s, m, kk))

\* variant: the commented-out test of line 337 is active
convergence_with_dqddt(s, mon, kk, tstep, previous_tstep) ==
    IF ~AllFinite(tstep.q) THEN Raise(mon)
    ELSE IF kk = 0 THEN BaseBranch(mon, tstep)
    ELSE IF s.include_unsteady_force_contribution /\ kk < UnsteadyMinSubsteps
    THEN Gate(mon)
    ELSE LET m == residuals(mon, tstep, previous_tstep)
         IN  Returned(m, converged(s, m, kk) /\ ResBelow(m.res_dqddt, s.fsi_tolerance))

\* variant: the unsteady gate ends one substep early
convergence_gate_short(s, mon, kk, tstep, previous_tstep) ==
    IF ~AllFinite(tstep.q) THEN Raise(mon)
    ELSE IF kk = 0 THEN BaseBranch(mon, tstep)
    ELSE IF s.include_unsteady_force_contribution /\ kk < UnsteadyMinSubsteps - 1
    THEN Gate(mon)
    ELSE LET m == residuals(mon, tstep, previous_tstep)
         IN  Returned(m, converged(s, m, kk))

\* variant: the unsteady gate is missing
convergence_no_unsteady_gate(s, mon, kk, tstep, previous_tstep) ==
    IF ~AllFinite(tstep.q) THEN Raise(mon)
    ELSE IF kk = 0 THEN BaseBranch(mon, tstep)
    ELSE LET m == residuals(mon, tstep, previous_tstep)
         IN  Returned(m, converged(s, m, kk))

\* convergence(k, tstep, previous_tstep), lines 305-340
convergence(s, mon, kk, tstep, previous_tstep) ==
    IF ~AllFinite(tstep.q) THEN Raise(mon)
    ELSE IF kk = 0 THEN BaseBranch(mon, tstep)
    ELSE IF s.include_unsteady_force_contribution /\ kk < UnsteadyMinSubsteps
    THEN Gate(mon)
    ELSE LET m == residuals(mon, tstep, previous_tstep)
         IN  Returned(m, converged(s, m, kk))

(* ------------------------ state ----------------------------------------- *)
VARIABLES
    settings,               \* self.settings
    ts,                     \* self.data.ts
    aero_hist,              \* self.data.aero.timestep_info
    struct_hist,            \* self.data.structure.timestep_info
    pc,                     \* position of the control flow
    range_next, range_end,  \* the range object of the outer for loop
    inner_next,             \* next index of the inner range
    k,                      \* locals of run()
    structural_kstep, previous_kstep, aero_kstep,
    force_coeff, unsteady_contribution, relax_factor,
    monitor,                \* self.base_*, self.res*
    post_next,              \* position in self.postprocessors
    progress,               \* last line handed to residual_table.print_line
    outs,                   \* what the structural / aero collaborators may return
    obs                     \* bookkeeping of calls, used by the properties only

vars == <<settings, ts, aero_hist, struct_hist, pc, range_next, range_end,
          inner_next, k, structural_kstep, previous_kstep, aero_kstep,
          force_coeff, unsteady_contribution, relax_factor, monitor,
          post_next, progress, outs, obs>>

data == <<ts, aero_hist, struct_hist>>
locals == <<k, structural_kstep, previous_kstep, aero_kstep,
            force_coeff, unsteady_contribution, relax_factor>>
loops == <<range_next, range_end, inner_next, post_next>>

(* ------------------------ collaborators --------------------------------- *)
\* (q, dqdt, dqddt) a structural solve may leave in the estimate
StructTriple(t) == [q |-> Vec(t[1]), dqdt |-> Vec(t[2]), dqddt |-> Vec(t[3])]
DivergedOutput == [q |-> NaNVec, dqdt |-> Vec(2), dqddt |-> Vec(1)]

\* stub collaborators: the outputs the structural and the aero solver may give
MovingStub ==
    [struct |-> {StructTriple(t) : t \in {<<2, 2, 1>>, <<3, 2, 1>>, <<3, 3, 1>>}}
                \cup {DivergedOutput},
     aero |-> {1}]
RestingStub ==
    [struct |-> {StructTriple(t) : t \in {<<3, 3, 1>>, <<3, 3, 2>>, <<0, 0, 1>>}},
     aero |-> {1, 2}]
SteadyStub ==
    [struct |-> {StructTriple(<<3, 3, 1>>)}, aero |-> {1}]
RampStub ==
    [struct |-> {StructTriple(t) : t \in {<<2, 2, 1>>, <<3, 2, 1>>, <<3, 3, 1>>}},
     aero |-> {1}]
LoadStub ==
    [struct |-> {StructTriple(<<3, 3, 1>>)}, aero |-> {1, 2}]
ConstantLoadStub ==
    [struct |-> {StructTriple(<<3, 3, 1>>)}, aero |-> {2}]

(* ------------------------ initial states -------------------------------- *)
Tolerances == {<<1, 2>>}
FixedRelaxation ==
    [relaxation_factor |-> FZero, final_relaxation_factor |-> FZero,
     relaxation_steps |-> 0, dynamic_relaxation |-> FALSE]
FadingRelaxation ==
    [relaxation_factor |-> <<1, 2>>, final_relaxation_factor |-> FZero,
     relaxation_steps |-> 2, dynamic_relaxation |-> TRUE]

\* relaxation settings: a fixed factor, or a schedule between two factors
RelaxationFactors == {FZero, <<1, 2>>, FOne}
Relaxations ==
    {[relaxation_factor |-> a, final_relaxation_factor |-> a,
      relaxation_steps |-> 0, dynamic_relaxation |-> FALSE] : a \in RelaxationFactors}
    \cup
    {[relaxation_factor |-> a, final_relaxation_factor |-> b,
      relaxation_steps |-> n, dynamic_relaxation |-> TRUE] :
        a \in RelaxationFactors, b \in RelaxationFactors, n \in 0..MaxRelaxSteps}

Settings(n, fsi, minst, unsteady, cleanup, rx, npost, print) ==
    [n_time_steps |-> n, fsi_substeps |-> fsi, minimum_steps |-> minst,
     fsi_tolerance |-> CHOOSE t \in Tolerances : TRUE,
     include_unsteady_force_contribution |-> unsteady,
     cleanup_previous_solution |-> cleanup,
     relaxation_factor |-> rx.relaxation_factor,
     final_relaxation_factor |-> rx.final_relaxation_factor,
     relaxation_steps |-> rx.relaxation_steps,
     dynamic_relaxation |-> rx.dynamic_relaxation,
     postprocessors |-> [i \in 1..npost |-> i],
     print_info |-> print]

InitObs ==
    [aero_calls |-> 0, struct_calls |-> 0, grid_calls |-> 0, evals |-> 0,
     warnings |-> 0, exit |-> "none", run_len0 |-> <<0, 0>>, step_len0 |-> <<0, 0>>,
     base_at |-> <<>>, res_at |-> <<>>, steps_done |-> 0, applied |-> FZero,
     pre |-> <<>>, post_runs |-> <<>>, iter |-> <<>>, first |-> <<>>,
     factors |-> <<>>, mapped |-> <<>>, calls |-> <<>>, reported_at |-> <<>>,
     run_hist0 |-> <<>>]

\* the state after __init__ (lines 132-149), before any local of run() is bound
InitRest ==
    /\ pc = "new"
    /\ range_next = 0 /\ range_end = 0 /\ inner_next = 0 /\ post_next = 0
    /\ k = 0
    /\ structural_kstep = Unbound /\ previous_kstep = Unbound /\ aero_kstep = Unbound
    /\ force_coeff = FZero /\ unsteady_contribution = FALSE /\ relax_factor = FZero
    /\ monitor = InitMonitor
    /\ progress = <<>>
    /\ obs = InitObs

\* the data object handed to initialise(): histories of a previous phase
InitData(la, ls, cursor) ==
    /\ aero_hist = SeedAeroHistory(la)
    /\ struct_hist = SeedStructHistory(ls)
    /\ ts = cursor

\* coupling runs: every combination of the loop settings within the budget
Init ==
    /\ \E n \in 0..MaxTimeSteps, fsi \in 0..MaxSubsteps, minst \in 0..MaxMinSteps,
          unsteady \in BOOLEAN, cleanup \in BOOLEAN, npost \in {0, MaxPostprocs} :
          /\ n * fsi <= MaxSolves
          /\ settings = Settings(n, fsi, minst, unsteady, cleanup,
                                 FixedRelaxation, npost, npost = 0)
    /\ \E l \in {<<1, 1>>, <<MaxInitLen, MaxInitLen>>, <<1, MaxInitLen>>} :
          InitData(l[1], l[2], 0)
    /\ outs \in {MovingStub, RestingStub}
    /\ InitRest

\* resumed phases: every shape of the data object, one short run.  The cursor
\* is a plain field of the data object; run() itself leaves it nonzero beside
\* histories of length 1 when its first outer step raises.
InitCleanup ==
    /\ \E cleanup \in BOOLEAN :
          settings = Settings(1, 1, 0, FALSE, cleanup, FadingRelaxation,
                              MaxPostprocs, TRUE)
    /\ \E la \in 1..MaxInitLen, ls \in 1..MaxInitLen, cursor \in 0..MaxInitLen :
          InitData(la, ls, cursor)
    /\ outs = SteadyStub
    /\ InitRest

\* long inner loops late in the history: the unsteady ramp
InitRamp ==
    /\ \E fsi \in {1, UnsteadyMinSubsteps, RampSubsteps}, minst \in {0, MaxMinSteps},
          unsteady \in BOOLEAN, l \in {1, RampInitLen - 1, RampInitLen} :
          /\ settings = Settings(1, fsi, minst, unsteady, FALSE, FixedRelaxation,
                                 MaxPostprocs, TRUE)
          /\ InitData(l, l, l - 1)
    /\ outs = RampStub
    /\ InitRest

\* relaxed inner loops: every relaxation setting, short loops under varying
\* loads and one loop long enough for k to pass 0.9*fsi_substeps
InitRelax ==
    /\ \E fsi \in {1, MaxRelaxSteps + 2, OverrideSubsteps}, rx \in Relaxations,
          unsteady \in BOOLEAN, stops \in BOOLEAN, l \in {1, RampInitLen} :
          /\ settings = Settings(1, fsi, IF stops THEN 0 ELSE fsi, unsteady, FALSE,
                                 rx, MaxPostprocs, TRUE)
          /\ InitData(l, l, l - 1)
          /\ outs = IF fsi = OverrideSubsteps THEN ConstantLoadStub ELSE LoadStub
    /\ InitRest

(* ------------------------ initialise ------------------------------------ *)
\* lines 163-199
Initialise ==
    /\ pc = "new"
    /\ LET c == cleanup_timestep_info(aero_hist, struct_hist, ts)
       IN  IF settings.cleanup_previous_solution
           THEN /\ aero_hist' = c.aero
                /\ struct_hist' = c.struct
                /\ ts' = c.ts
           ELSE UNCHANGED data
    /\ obs' = [obs EXCEPT !.pre = <<aero_hist, struct_hist, ts>>]
    /\ pc' = "ready"
    /\ UNCHANGED <<settings, locals, loops, monitor, progress, outs>>

(* ------------------------ run: outer loop ------------------------------- *)
\* variant: the numbering restarts from zero
outer_range_from_zero(s, struct) == [first |-> 0, stop |-> s.n_time_steps]

\* lines 217-218: range(len(structure.timestep_info), n_time_steps + len(...))
outer_range(s, struct) ==
    [first |-> Len(struct), stop |-> s.n_time_steps + Len(struct)]

\* variant: the budget test reads k > fsi_substeps
budget_exhausted_late(s, kk) == kk > s.fsi_substeps /\ not_fsi_substeps_eq_0(s)

\* line 223: the budget test of the inner loop
budget_exhausted(s, kk) == kk = s.fsi_substeps /\ not_fsi_substeps_eq_0(s)

\* lines 279-280 and 282-283: add_step() appends an entry, the core then
\* overwrites the last entry with a copy of the estimate
add_step(hist, placeholder) == Append(hist, placeholder)
\* variant: the last entry is overwritten without add_step()
commit_without_add_step(hist, placeholder, step) == SetLast(hist, step)
\* variant: the estimate is written to slot 0 instead of slot -1
commit_into_first(hist, placeholder, step) ==
    [add_step(hist, placeholder) EXCEPT ![1] = step]
commit(hist, placeholder, step) == SetLast(add_step(hist, placeholder), step)

\* lines 215-218: the range of the outer loop is built once
Run ==
    /\ pc = "ready"
    /\ range_next' = outer_range(settings, struct_hist).first
    /\ range_end' = outer_range(settings, struct_hist).stop
    /\ obs' = [obs EXCEPT !.run_len0 = <<Len(aero_hist), Len(struct_hist)>>,
                          !.run_hist0 = <<aero_hist, struct_hist>>,
                          !.pre = <<>>]
    /\ pc' = "outer"
    /\ UNCHANGED <<settings, data, locals, inner_next, post_next, monitor,
                   progress, outs>>

\* lines 217-221: next value of the outer loop
OuterStep ==
    /\ pc = "outer"
    /\ range_next < range_end
    /\ ts' = range_next
    /\ range_next' = range_next + 1
    /\ structural_kstep' = Last(struct_hist)
    /\ k' = 0
    /\ inner_next' = 0
    /\ obs' = [obs EXCEPT !.aero_calls = 0, !.struct_calls = 0, !.grid_calls = 0,
                          !.evals = 0, !.warnings = 0, !.exit = "none",
                          !.post_runs = <<>>, !.factors = <<>>, !.calls = <<>>,
                          !.step_len0 = <<Len(aero_hist), Len(struct_hist)>>]
    /\ pc' = "inner"
    /\ UNCHANGED <<settings, aero_hist, struct_hist, range_end, previous_kstep,
                   aero_kstep, force_coeff, unsteady_contribution, relax_factor,
                   monitor, post_next, progress, outs>>

\* lines 301-303: the outer range is exhausted
Finish ==
    /\ pc = "outer"
    /\ range_next >= range_end
    /\ pc' = "done"
    /\ UNCHANGED <<settings, data, locals, loops, monitor, progress, outs, obs>>

(* ------------------------ run: inner loop ------------------------------- *)
\* lines 222-225: next value of the inner loop and the budget test
Substep ==
    /\ pc = "inner"
    /\ IF inner_next > settings.fsi_substeps
       THEN \* range(fsi_substeps + 1) is exhausted: the loop ends by its bound
            /\ obs' = [obs EXCEPT !.exit = "bound"]
            /\ pc' = "commit_aero"
            /\ UNCHANGED <<k, inner_next>>
       ELSE /\ k' = inner_next
            /\ inner_next' = inner_next + 1
            /\ IF budget_exhausted(settings, inner_next)
               THEN \* cout_wrap('The FSI solver did not converge!!!'); break
                    /\ obs' = [obs EXCEPT !.warnings = @ + 1, !.exit = "budget"]
                    /\ pc' = "commit_aero"
               ELSE /\ obs' = obs
                    /\ pc' = "grid"
    /\ UNCHANGED <<settings, data, range_next, range_end, post_next,
                   structural_kstep, previous_kstep, aero_kstep, force_coeff,
                   unsteady_contribution, relax_factor, monitor, progress, outs>>

\* lines 228-229: aero_kstep = copy of the last aero entry, grid regenerated
\* from the structural estimate
update_custom_grid(struct_step, aero_step) == [aero_step EXCEPT !.zeta = struct_step.q]

GridUpdate ==
    /\ pc = "grid"
    /\ aero_kstep' = update_custom_grid(structural_kstep, Last(aero_hist))
    /\ obs' = [obs EXCEPT !.grid_calls = @ + 1,
                          !.calls = Append(@, <<"update_custom_grid", k>>)]
    /\ pc' = "aero"
    /\ UNCHANGED <<settings, data, loops, k, structural_kstep, previous_kstep,
                   force_coeff, unsteady_contribution, relax_factor, monitor,
                   progress, outs>>

\* lines 233-250: ramp coefficient, unsteady flag, aero solver
AeroRun ==
    /\ pc = "aero"
    /\ force_coeff' = ForceCoeff(settings, ts, k)
    /\ unsteady_contribution' = UnsteadyContribution(force_coeff')
    /\ \E f \in outs.aero :
          aero_kstep' = [aero_kstep EXCEPT !.forces = f, !.dynamic_forces = 1]
    /\ obs' = [obs EXCEPT !.aero_calls = @ + 1,
                          !.calls = Append(@, <<"aero_solver.run", k>>)]
    /\ pc' = "map"
    /\ UNCHANGED <<settings, data, loops, k, structural_kstep, previous_kstep,
                   relax_factor, monitor, progress, outs>>

\* lines 252-256
MapForces ==
    /\ pc = "map"
    /\ previous_kstep' = structural_kstep
    /\ structural_kstep' = map_forces(aero_kstep, Last(struct_hist), force_coeff, ts)
    /\ obs' = [obs EXCEPT !.mapped = structural_kstep',
                          !.calls = Append(@, <<"map_forces", k>>)]
    /\ pc' = "relax"
    /\ UNCHANGED <<settings, data, loops, k, aero_kstep, force_coeff,
                   unsteady_contribution, relax_factor, monitor, progress, outs>>

\* variant: the override of lines 265-268 comes before the blend
Relax_override_first ==
    /\ pc = "relax"
    /\ LET factor == relax_factor_override(settings, k, relaxation_factor(settings, k))
       IN  /\ structural_kstep' = relax(structural_kstep, previous_kstep, factor)
           /\ relax_factor' = factor
           /\ obs' = [obs EXCEPT !.applied = factor, !.factors = Append(@, factor),
                                 !.calls = Append(@, <<"relax", k>>)]
    /\ pc' = "struct"
    /\ UNCHANGED <<settings, data, loops, k, previous_kstep, aero_kstep,
                   force_coeff, unsteady_contribution, monitor, progress, outs>>

\* lines 259-268
Relax ==
    /\ pc = "relax"
    /\ LET factor == relaxation_factor(settings, k)
       IN  /\ structural_kstep' = relax(structural_kstep, previous_kstep, factor)
           /\ relax_factor' = relax_factor_override(settings, k, factor)
           /\ obs' = [obs EXCEPT !.applied = factor, !.factors = Append(@, factor),
                                 !.calls = Append(@, <<"relax", k>>)]
    /\ pc' = "struct"
    /\ UNCHANGED <<settings, data, loops, k, previous_kstep, aero_kstep,
                   force_coeff, unsteady_contribution, monitor, progress, outs>>

\* line 271: the structural solver updates the estimate in place
StructRun ==
    /\ pc = "struct"
    /\ \E o \in outs.struct :
          structural_kstep' = [structural_kstep EXCEPT
                                 !.q = o.q, !.dqdt = o.dqdt, !.dqddt = o.dqddt]
    /\ obs' = [obs EXCEPT
                 !.struct_calls = @ + 1,
                 !.calls = Append(@, <<"structural_solver.run", k>>),
                 !.iter = [ts |-> ts, k |-> k, struct |-> structural_kstep',
                           aero |-> aero_kstep],
                 !.first = IF k = 0 THEN [ts |-> ts, struct |-> structural_kstep']
                           ELSE @]
    /\ pc' = "conv"
    /\ UNCHANGED <<settings, data, loops, k, previous_kstep, aero_kstep,
                   force_coeff, unsteady_contribution, relax_factor, monitor,
                   progress, outs>>

\* lines 274-277 with the body of convergence(), lines 305-340
Convergence ==
    /\ pc = "conv"
    /\ LET r == convergence(settings, monitor, k, structural_kstep, previous_kstep)
       IN  /\ monitor' = r.mon
           /\ obs' = [obs EXCEPT
                        !.evals = @ + 1,
                        !.calls = Append(@, <<"convergence", k>>),
                        !.base_at = IF r.path = "base" THEN <<ts, k>> ELSE @,
                        !.res_at = IF r.path = "residual" THEN <<ts, k>> ELSE @,
                        !.exit = IF r.raised THEN "diverged"
                                 ELSE IF r.ret THEN "converged" ELSE @]
           /\ pc' = IF r.raised THEN "aborted"
                    ELSE IF r.ret THEN "commit_aero" ELSE "inner"
    /\ UNCHANGED <<settings, data, loops, locals, progress, outs>>

(* ------------------------ run: commit and reporting --------------------- *)
\* lines 279-280: the name aero_kstep is read; it is unbound when no substep
\* of this run() has reached line 228
CommitAero ==
    /\ pc = "commit_aero"
    /\ IF aero_kstep = Unbound
       THEN /\ aero_hist' = add_step(aero_hist, AeroPlaceholder)
            /\ obs' = [obs EXCEPT !.calls = Append(@, <<"aero_solver.add_step", ts>>)]
            /\ pc' = "crashed"
       ELSE /\ aero_hist' = commit(aero_hist, AeroPlaceholder, aero_kstep)
            /\ obs' = [obs EXCEPT
                         !.calls = @ \o <<<<"aero_solver.add_step", ts>>,
                                          <<"aero.timestep_info[-1] =", ts>>>>]
            /\ pc' = "commit_struct"
    /\ UNCHANGED <<settings, ts, struct_hist, loops, locals, monitor, progress,
                   outs>>

\* lines 282-284; integrate_position moves the frame position of the last
\* entry, which is not among the fields held here
CommitStruct ==
    /\ pc = "commit_struct"
    /\ struct_hist' = commit(struct_hist, StructPlaceholder, structural_kstep)
    /\ obs' = [obs EXCEPT
                 !.calls = @ \o <<<<"structural_solver.add_step", ts>>,
                                  <<"structure.timestep_info[-1] =", ts>>,
                                  <<"integrate_position", ts>>>>]
    /\ pc' = "report"
    /\ UNCHANGED <<settings, ts, aero_hist, loops, locals, monitor, progress,
                   outs>>

\* variant: the postprocessors are not run
Report_without_postprocessors ==
    /\ pc = "report"
    /\ progress' = IF settings.print_info
                   THEN <<ts, k, monitor.res_dqdt>>
                   ELSE progress
    /\ post_next' = 1
    /\ pc' = "outer"
    /\ obs' = [obs EXCEPT !.steps_done = @ + 1,
                          !.reported_at = IF settings.print_info THEN obs.res_at ELSE @,
                          !.calls = Append(@, <<"extract_resultants", ts>>)]
    /\ UNCHANGED <<settings, data, range_next, range_end, inner_next, locals,
                   monitor, outs>>

\* lines 286-297: progress line, extract_resultants, first look at the
\* postprocessors
Report ==
    /\ pc = "report"
    /\ progress' = IF settings.print_info
                   THEN <<ts, k, monitor.res_dqdt>>
                   ELSE progress
    /\ post_next' = 1
    /\ IF Len(settings.postprocessors) > 0
       THEN /\ pc' = "post"
            /\ obs' = [obs EXCEPT
                         !.reported_at = IF settings.print_info THEN obs.res_at ELSE @,
                         !.calls = Append(@, <<"extract_resultants", ts>>)]
       ELSE /\ pc' = "outer"
            /\ obs' = [obs EXCEPT
                         !.steps_done = @ + 1,
                         !.reported_at = IF settings.print_info THEN obs.res_at ELSE @,
                         !.calls = Append(@, <<"extract_resultants", ts>>)]
    /\ UNCHANGED <<settings, data, range_next, range_end, inner_next, locals,
                   monitor, outs>>

\* lines 298-299: one postprocessor, in the order of the setting
Postprocess ==
    /\ pc = "post"
    /\ post_next <= Len(settings.postprocessors)
    /\ post_next' = post_next + 1
    /\ IF post_next = Len(settings.postprocessors)
       THEN /\ pc' = "outer"
            /\ obs' = [obs EXCEPT
                         !.steps_done = @ + 1,
                         !.post_runs = Append(@, settings.postprocessors[post_next]),
                         !.calls = Append(@, <<"postprocessor.run(online=True)",
                                              settings.postprocessors[post_next]>>)]
       ELSE /\ pc' = "post"
            /\ obs' = [obs EXCEPT
                         !.post_runs = Append(@, settings.postprocessors[post_next]),
                         !.calls = Append(@, <<"postprocessor.run(online=True)",
                                              settings.postprocessors[post_next]>>)]
    /\ UNCHANGED <<settings, data, range_next, range_end, inner_next, locals,
                   monitor, progress, outs>>

(* ------------------------ specification --------------------------------- *)
Next ==
    \/ Initialise
    \/ Run
    \/ OuterStep
    \/ Substep
    \/ GridUpdate
    \/ AeroRun
    \/ MapForces
    \/ Relax
    \/ StructRun
    \/ Convergence
    \/ CommitAero
    \/ CommitStruct
    \/ Report
    \/ Postprocess
    \/ Finish

Spec == Init /\ [][Next]_vars
SpecCleanup == InitCleanup /\ [][Next]_vars
SpecRamp == InitRamp /\ [][Next]_vars
SpecRelax == InitRelax /\ [][Next]_vars

(* ------------------------ properties ------------------------------------ *)
InSubstep == pc \in {"grid", "aero", "map", "relax", "struct", "conv"}
AfterLoop == pc \in {"commit_aero", "commit_struct", "report", "post"}
Committed == pc \in {"report", "post"}
Unsteady == settings.include_unsteady_force_contribution

\* res_q < fsi_tolerance and res_dqdt < fsi_tolerance for the pair of iterates,
\* normalised by the norms of base
WithinTolerance(cur, prev, base) ==
    /\ ResBelow(Residual(cur.q, prev.q, NormSq(base.q)), settings.fsi_tolerance)
    /\ ResBelow(Residual(cur.dqdt, prev.dqdt, NormSq(base.dqdt)), settings.fsi_tolerance)

\* the evaluation that is about to run, and whether it ends the inner loop
Evaluating == pc = "conv"
FiniteQ == AllFinite(structural_kstep.q)
ExitsConverged == pc' = "commit_aero" /\ obs'.exit = "converged"

\* C1: with the unsteady contribution disabled, the inner loop exits by
\* convergence exactly at the first substep k >= max(1, minimum_steps) whose
\* iterate is within fsi_tolerance (q and dqdt) of the previous one; the aero
\* and structural solver have then run k+1 times each in this outer step, and
\* the step appends one entry to each history.
C1_ConvergedExit ==
    [][ /\ (Evaluating /\ ~Unsteady /\ FiniteQ)
            => /\ ExitsConverged
                  <=> /\ k >= Max(1, settings.minimum_steps)
                      /\ WithinTolerance(structural_kstep, previous_kstep,
                                         obs.first.struct)
               /\ ExitsConverged
                  => /\ k' = k /\ k < settings.fsi_substeps
                     /\ obs'.aero_calls = k + 1
                     /\ obs'.struct_calls = k + 1
        /\ (obs.exit = "converged" /\ pc # "outer" /\ pc' = "outer")
            => /\ Len(aero_hist') = obs.step_len0[1] + 1
               /\ Len(struct_hist') = obs.step_len0[2] + 1
      ]_vars

\* C1 witness: Scenario A (one step, budget 3, minimum_steps 1, no relaxation)
\* has converged at k = 1 after two aero and two structural runs
C1_Witness ==
    /\ settings.n_time_steps = 1 /\ settings.fsi_substeps = 3
    /\ settings.minimum_steps = 1 /\ ~Unsteady
    /\ settings.relaxation_factor = FZero /\ ~settings.dynamic_relaxation
    /\ pc = "outer" /\ obs.exit = "converged" /\ k = 1
    /\ obs.aero_calls = 2 /\ obs.struct_calls = 2
    /\ Len(struct_hist) = obs.step_len0[2] + 1

\* C2: for fsi_substeps >= 1 a step that neither converges nor diverges runs
\* exactly fsi_substeps aero/structural pairs, warns once at k = fsi_substeps
\* without running a solver there, commits the iterate of substep
\* fsi_substeps - 1 to both histories and raises nothing; the run goes on, and
\* a finished run has executed all n_time_steps outer steps.
C2_BudgetIsSoft ==
    settings.fsi_substeps >= 1 =>
        /\ pc # "crashed"
        /\ AfterLoop => obs.exit \in {"converged", "budget"}
        /\ (AfterLoop /\ obs.exit = "budget")
            => /\ k = settings.fsi_substeps
               /\ obs.aero_calls = settings.fsi_substeps
               /\ obs.struct_calls = settings.fsi_substeps
               /\ obs.grid_calls = settings.fsi_substeps
               /\ obs.warnings = 1
               /\ obs.iter.k = settings.fsi_substeps - 1 /\ obs.iter.ts = ts
        /\ (AfterLoop /\ obs.exit = "converged") => obs.warnings = 0
        /\ (Committed /\ obs.exit = "budget")
            => /\ Last(struct_hist) = obs.iter.struct
               /\ Last(aero_hist) = obs.iter.aero
        /\ pc = "done" => obs.steps_done = settings.n_time_steps

\* C2 witness: a finished two-step run whose last step ended on the budget
C2_Witness ==
    /\ pc = "done" /\ settings.n_time_steps = 2 /\ settings.fsi_substeps = 2
    /\ obs.exit = "budget" /\ obs.warnings = 1 /\ obs.steps_done = 2

\* C3: a non-finite entry of q makes the evaluation raise before anything else
\* at every k: baselines and residuals stay as they were, nothing is
\* committed, and no step of the run follows the failing structural solve.
C3_DivergenceIsFatal ==
    [][ /\ pc # "aborted"
        /\ (Evaluating /\ ~FiniteQ)
            => /\ pc' = "aborted"
               /\ monitor' = monitor
               /\ obs'.base_at = obs.base_at /\ obs'.res_at = obs.res_at
        /\ pc' = "aborted"
            => /\ Evaluating /\ ~FiniteQ
               /\ Len(aero_hist') = obs'.step_len0[1]
               /\ Len(struct_hist') = obs'.step_len0[2]
               /\ obs'.aero_calls = k' + 1 /\ obs'.struct_calls = k' + 1
               /\ obs'.post_runs = <<>>
      ]_vars

\* C3 witness: the run is aborted at k = 0, where the baseline would have
\* been recorded
C3_Witness ==
    /\ pc = "aborted" /\ k = 0 /\ ~FiniteQ
    /\ monitor.base_q = NoBase

C5_NumberingContinues ==
    /\ (InSubstep \/ AfterLoop \/ pc = "inner")
        => /\ ts = obs.run_len0[2] + obs.steps_done
           /\ ts = obs.step_len0[2]
           /\ ts = IF Committed THEN Len(struct_hist) - 1 ELSE Len(struct_hist)
    /\ (pc = "done" /\ settings.n_time_steps > 0)
        => ts = obs.run_len0[2] + settings.n_time_steps - 1

\* C5 witness: the second step of a run that started on a history of length
\* MaxInitLen is numbered MaxInitLen + 1
C5_Witness ==
    /\ pc = "grid" /\ obs.steps_done = 1
    /\ obs.run_len0[2] = MaxInitLen /\ ts = MaxInitLen + 1

\* C6 as stated: with finite q the evaluation returns not-converged for
\* every k <= minimum_steps - 1, and for every k > minimum_steps - 1 it
\* returns converged iff res_q and res_dqdt are both below fsi_tolerance.
C6_GateAsStated ==
    [][ (Evaluating /\ FiniteQ)
            => /\ k <= settings.minimum_steps - 1 => ~ExitsConverged
               /\ k > settings.minimum_steps - 1
                    => (ExitsConverged
                        <=> WithinTolerance(structural_kstep, previous_kstep,
                                            obs.first.struct))
      ]_vars

\* C6 amended: not-converged for every k <= minimum_steps - 1, at k = 0, and
\* at k < 5 when the unsteady contribution is enabled; for every other k
\* converged iff res_q and res_dqdt are both below fsi_tolerance.
C6_MinimumStepsGate ==
    [][ (Evaluating /\ FiniteQ)
            => /\ k <= settings.minimum_steps - 1 => ~ExitsConverged
               /\ (k = 0 \/ (Unsteady /\ k < 5)) => ~ExitsConverged
               /\ (k > settings.minimum_steps - 1 /\ k >= 1 /\ (~Unsteady \/ k >= 5))
                    => (ExitsConverged
                        <=> WithinTolerance(structural_kstep, previous_kstep,
                                            obs.first.struct))
      ]_vars

\* C6 witness: with the unsteady contribution enabled the loop has left by
\* convergence at k = 5, above minimum_steps - 1
C6_Witness ==
    /\ pc = "commit_aero" /\ obs.exit = "converged" /\ Unsteady /\ k = 5
    /\ k > settings.minimum_steps - 1

\* C7: at k = 0 with finite q the evaluation returns not-converged and sets
\* the three baselines to the norms of the current iterate; every residual
\* computed at k >= 1 is normalised by the baseline recorded at k = 0 of the
\* same outer step, and every committed step has recorded its own baseline.
C7_BaselinePerStep ==
    [][ /\ (Evaluating /\ k = 0 /\ FiniteQ)
            => /\ pc' = "inner" /\ ~ExitsConverged
               /\ monitor'.base_q = NormSq(structural_kstep.q)
               /\ monitor'.base_dqdt = NormSq(structural_kstep.dqdt)
               /\ monitor'.base_dqddt = NormSq(structural_kstep.dqddt)
               /\ obs'.base_at = <<ts, 0>>
        /\ (Evaluating /\ obs'.res_at = <<ts, k>>)
            => /\ k >= 1
               /\ obs.base_at = <<ts, 0>>
               /\ obs.first.ts = ts
               /\ monitor'.res = Residual(structural_kstep.q, previous_kstep.q,
                                          NormSq(obs.first.struct.q))
               /\ monitor'.res_dqdt = Residual(structural_kstep.dqdt, previous_kstep.dqdt,
                                               NormSq(obs.first.struct.dqdt))
               /\ monitor'.res_dqddt = Residual(structural_kstep.dqddt, previous_kstep.dqddt,
                                                NormSq(obs.first.struct.dqddt))
        /\ (pc = "commit_struct" /\ pc' = "report")
            => /\ obs.base_at = <<ts, 0>>
               /\ monitor.base_q = NormSq(obs.first.struct.q)
      ]_vars

\* C7 witness: a residual of the second outer step, normalised by a baseline
\* other than the one the first step committed with
C7_Witness ==
    /\ pc = "inner" /\ obs.steps_done = 1 /\ obs.res_at = <<ts, 1>>
    /\ monitor.res[2] = NormSq(obs.first.struct.q)
    /\ monitor.res[2] # NormSq(Last(struct_hist).q)

\* C8 as stated: with fsi_substeps = 0 no warning is emitted, each outer step
\* runs exactly substep k = 0 (one grid update, one aero run, one structural
\* run, one evaluation), the loop ends by its bound and the step is committed.
C8_ZeroBudgetRunsOnce ==
    settings.fsi_substeps = 0 =>
        /\ obs.warnings = 0
        /\ pc # "crashed"
        /\ AfterLoop
            => /\ k = 0 /\ obs.exit = "bound"
               /\ obs.grid_calls = 1 /\ obs.aero_calls = 1
               /\ obs.struct_calls = 1 /\ obs.evals = 1

\* the data object before and after initialise()
PreAero == obs.pre[1]
PreStruct == obs.pre[2]
PreTs == obs.pre[3]
CleanedUp == pc = "ready" /\ settings.cleanup_previous_solution
Trimmed ==
    /\ Len(aero_hist) = 1 /\ Len(struct_hist) = 1
    /\ aero_hist[1] = Last(PreAero) /\ struct_hist[1] = Last(PreStruct)
    /\ ts = 0

\* C9 as stated: cleanup with a history longer than 1 leaves both histories
\* of length 1 holding their prior last entries and the cursor at 0; with
\* both of length <= 1 histories and cursor are unchanged.
C9_CleanupAsStated ==
    CleanedUp =>
        IF Len(PreAero) > 1 \/ Len(PreStruct) > 1
        THEN Trimmed
        ELSE aero_hist = PreAero /\ struct_hist = PreStruct /\ ts = PreTs

\* C9 amended: as above, but with both histories of length <= 1 only the
\* histories are unchanged; the cursor is set to 0 in every case.
C9_Cleanup ==
    CleanedUp =>
        IF Len(PreAero) > 1 \/ Len(PreStruct) > 1
        THEN Trimmed
        ELSE aero_hist = PreAero /\ struct_hist = PreStruct /\ ts = 0

\* C9 witness: only the structural history was longer than 1; both are
\* trimmed and the cursor, which was not 0, is reset
C9_Witness ==
    /\ CleanedUp /\ Len(PreAero) = 1 /\ Len(PreStruct) > 1 /\ PreTs # 0
    /\ Trimmed /\ struct_hist[1] # PreStruct[1]

\* the ramp of the claim, written out
ExpectedCoeff(cursor, kk) ==
    IF ~Unsteady \/ cursor < 5 THEN <<0, 1>>
    ELSE CASE kk = 0 -> <<0, 1>>
           [] kk = 1 -> <<1, 4>>
           [] kk = 2 -> <<1, 2>>
           [] kk = 3 -> <<3, 4>>
           [] kk = 4 -> <<1, 1>>
           [] OTHER -> <<1, 1>>

\* C10: the coefficient handed to force mapping at substep k of outer step ts
\* is 0 when the unsteady contribution is disabled or ts < 5, else 0, 1/4,
\* 1/2, 3/4, 1 for k = 0..4 and 1 for k >= 5; the aero solver is called with
\* unsteady_contribution = true iff the coefficient is nonzero.
C10_UnsteadyRamp ==
    /\ pc \in {"map", "relax", "struct", "conv"}
        => /\ force_coeff = ExpectedCoeff(ts, k)
           /\ unsteady_contribution <=> force_coeff # <<0, 1>>
    /\ pc = "relax"
        => structural_kstep.unsteady_applied_forces
              = FMul(ExpectedCoeff(ts, k), <<aero_kstep.dynamic_forces, 1>>)

\* C10 witness: the saturated coefficient at k = 5 of an outer step ts >= 5
C10_Witness ==
    /\ pc = "map" /\ Unsteady /\ ts >= 5 /\ k = 5
    /\ force_coeff = <<1, 1>> /\ unsteady_contribution

\* the factors the scheduler has returned in this outer step: Factor(kk) is
\* the one of substep kk
Scheduled(kk) == kk + 1 <= Len(obs.factors)
Factor(kk) == obs.factors[kk + 1]
Between(x, a, b) == (FLeq(a, x) /\ FLeq(x, b)) \/ (FLeq(b, x) /\ FLeq(x, a))
Dynamic == settings.dynamic_relaxation
InitialFactor == settings.relaxation_factor
FinalFactor == settings.final_relaxation_factor

\* what the claim says of the schedule apart from its value at k = 0
ScheduleShape ==
    /\ \A kk \in 0..Len(obs.factors) - 1 : Factor(kk)[2] > 0
    /\ ~Dynamic => \A kk \in 0..Len(obs.factors) - 1 : Factor(kk) = InitialFactor
    /\ Dynamic =>
        /\ \A kk \in 0..Len(obs.factors) - 1 :
              /\ kk >= settings.relaxation_steps => Factor(kk) = FinalFactor
              /\ kk <= settings.relaxation_steps
                    => Between(Factor(kk), InitialFactor, FinalFactor)
        /\ \A i \in 0..Len(obs.factors) - 1, j \in 0..Len(obs.factors) - 1 :
              (i <= j /\ j <= settings.relaxation_steps)
                  => IF FLeq(FinalFactor, InitialFactor)
                     THEN FLeq(Factor(j), Factor(i))
                     ELSE FLeq(Factor(i), Factor(j))

\* C11 as stated: with dynamic relaxation disabled the factor is
\* relaxation_factor at every k; enabled, factor(0) is the initial factor,
\* factor(relaxation_steps) and every later one the final factor, the factors
\* are monotone and between the two up to relaxation_steps, for every
\* relaxation_steps >= 0, and no division fails.
C11_ScheduleAsStated ==
    /\ ScheduleShape
    /\ (Dynamic /\ Scheduled(0)) => Factor(0) = InitialFactor

\* C11 amended: as stated, but factor(0) is the initial factor only for
\* relaxation_steps >= 1; with relaxation_steps = 0 every factor, the one of
\* k = 0 included, is the final factor.
C11_Schedule ==
    /\ ScheduleShape
    /\ (Dynamic /\ Scheduled(0) /\ settings.relaxation_steps >= 1)
        => Factor(0) = InitialFactor
    /\ (Dynamic /\ settings.relaxation_steps = 0)
        => \A kk \in 0..Len(obs.factors) - 1 : Factor(kk) = FinalFactor

\* C11 witness: a schedule fading from 1 to 0 in MaxRelaxSteps substeps has
\* passed through a factor strictly between the two and reached the clamp
C11_Witness ==
    /\ Dynamic /\ InitialFactor = FOne /\ FinalFactor = FZero
    /\ settings.relaxation_steps = MaxRelaxSteps
    /\ Scheduled(MaxRelaxSteps + 1)
    /\ Factor(0) = FOne /\ Factor(1) # FOne /\ Factor(1) # FZero
    /\ Factor(MaxRelaxSteps) = FZero /\ Factor(MaxRelaxSteps + 1) = FZero

\* x = (1 - c)*cur + c*prev, decided on the integers of the four fractions
IsBlend(x, c, cur, prev) ==
    x[1] * (c[2] * cur[2] * prev[2])
        = x[2] * ((c[2] - c[1]) * cur[1] * prev[2] + c[1] * prev[1] * cur[2])
StrictlyBetween(x, a, b) == Between(x, a, b) /\ x # a /\ x # b
Relaxing == pc = "relax" /\ pc' = "struct"

\* C12: for a coefficient in [0, 1] the relaxation replaces the steady and the
\* unsteady applied force of the current estimate by (1-coeff)*current +
\* coeff*previous, which lies between the two; coeff = 0 leaves the current
\* estimate as it was, coeff = 1 gives it the forces of the previous one; the
\* previous estimate and q, dqdt, dqddt of the current one are not changed.
C12_ConvexBlend ==
    [][ Relaxing =>
          LET c == obs'.applied
              cur == structural_kstep
              new == structural_kstep'
              prev == previous_kstep
          IN  /\ FLeq(FZero, c) /\ FLeq(c, FOne)
              /\ IsBlend(new.steady_applied_forces, c,
                         cur.steady_applied_forces, prev.steady_applied_forces)
              /\ IsBlend(new.unsteady_applied_forces, c,
                         cur.unsteady_applied_forces, prev.unsteady_applied_forces)
              /\ Between(new.steady_applied_forces,
                         cur.steady_applied_forces, prev.steady_applied_forces)
              /\ Between(new.unsteady_applied_forces,
                         cur.unsteady_applied_forces, prev.unsteady_applied_forces)
              /\ c = FZero => new = cur
              /\ c = FOne
                    => /\ new.steady_applied_forces = prev.steady_applied_forces
                       /\ new.unsteady_applied_forces = prev.unsteady_applied_forces
              /\ previous_kstep' = prev
              /\ new.q = cur.q /\ new.dqdt = cur.dqdt /\ new.dqddt = cur.dqddt
      ]_vars

\* C12 witness: a blend with coefficient 1/2 of estimates whose steady and
\* unsteady forces both differ has landed strictly between them
C12_Witness ==
    /\ pc = "struct" /\ obs.applied = <<1, 2>>
    /\ StrictlyBetween(structural_kstep.steady_applied_forces,
                       obs.mapped.steady_applied_forces,
                       previous_kstep.steady_applied_forces)
    /\ StrictlyBetween(structural_kstep.unsteady_applied_forces,
                       obs.mapped.unsteady_applied_forces,
                       previous_kstep.unsteady_applied_forces)
    /\ structural_kstep.q = obs.mapped.q

\* the accelerations and the acceleration baseline an evaluation could have
\* been given in place of the ones it is given
OtherAccelerations == {Vec(0), Vec(3), NaNVec}
OtherBaselines == {0, 2, NaN}
Outcome(r) == <<r.raised, r.ret>>

\* C13: the decision of an evaluation does not depend on dqddt: with q, dqdt
\* and their baselines as they are, any dqddt of the current and the previous
\* estimate and any base_dqddt give the same result; the dqddt residual is
\* computed and stored whenever the other two are.
C13_AccelerationIgnored ==
    [][ Evaluating =>
          /\ \A a \in OtherAccelerations, b \in OtherAccelerations,
                base \in OtherBaselines :
                Outcome(convergence(settings,
                                    [monitor EXCEPT !.base_dqddt = base], k,
                                    [structural_kstep EXCEPT !.dqddt = a],
                                    [previous_kstep EXCEPT !.dqddt = b]))
                    = <<pc' = "aborted", ExitsConverged>>
          /\ obs'.res_at = <<ts, k>>
                => monitor'.res_dqddt
                      = Residual(structural_kstep.dqddt, previous_kstep.dqddt,
                                 monitor.base_dqddt)
      ]_vars

\* C13 witness: the loop has left by convergence with a dqddt residual that
\* is not below the tolerance
C13_Witness ==
    /\ pc = "commit_aero" /\ obs.exit = "converged" /\ obs.res_at = <<ts, k>>
    /\ ResBelow(monitor.res, settings.fsi_tolerance)
    /\ ResBelow(monitor.res_dqdt, settings.fsi_tolerance)
    /\ ~ResBelow(monitor.res_dqddt, settings.fsi_tolerance)
    /\ monitor.res_dqddt[1] > 0

\* C14: with the unsteady contribution enabled an evaluation at k < 5 never
\* returns converged, whatever the residuals, minimum_steps and the outer
\* step index are (with finite q the inner loop goes on), so a converged exit
\* of such a step happens at k >= 5, after at least 6 aero and 6 structural
\* runs.
C14_UnsteadyGate ==
    [][ /\ (Evaluating /\ Unsteady /\ k < 5)
            => /\ ~ExitsConverged
               /\ FiniteQ => pc' = "inner"
        /\ (Unsteady /\ ExitsConverged)
            => /\ k >= 5
               /\ obs'.aero_calls >= 6 /\ obs'.struct_calls >= 6
               /\ obs'.aero_calls = k + 1 /\ obs'.struct_calls = k + 1
      ]_vars

\* C14 witness: at k = 4 of an outer step ts >= 5, above minimum_steps - 1,
\* the iterate was within tolerance of the previous one and the loop went on
C14_Witness ==
    /\ pc = "inner" /\ Unsteady /\ k = 4 /\ obs.evals = 5 /\ ts >= 5
    /\ k > settings.minimum_steps - 1
    /\ WithinTolerance(structural_kstep, previous_kstep, obs.first.struct)

\* the calls of the current outer step, in the order they were made
Calls == obs.calls
Postprocessors == settings.postprocessors
LastCallOfStep ==
    IF Len(Postprocessors) = 0 THEN <<"extract_resultants", ts>>
    ELSE <<"postprocessor.run(online=True)", Postprocessors[Len(Postprocessors)]>>

\* call b may come right after call a
Follows(a, b) ==
    CASE a[1] = "update_custom_grid" -> b = <<"aero_solver.run", a[2]>>
      [] a[1] = "aero_solver.run" -> b = <<"map_forces", a[2]>>
      [] a[1] = "map_forces" -> b = <<"relax", a[2]>>
      [] a[1] = "relax" -> b = <<"structural_solver.run", a[2]>>
      [] a[1] = "structural_solver.run" -> b = <<"convergence", a[2]>>
      [] a[1] = "convergence" ->
            b \in {<<"update_custom_grid", a[2] + 1>>, <<"aero_solver.add_step", ts>>}
      [] a[1] = "aero_solver.add_step" -> b = <<"aero.timestep_info[-1] =", ts>>
      [] a[1] = "aero.timestep_info[-1] =" -> b = <<"structural_solver.add_step", ts>>
      [] a[1] = "structural_solver.add_step" -> b = <<"structure.timestep_info[-1] =", ts>>
      [] a[1] = "structure.timestep_info[-1] =" -> b = <<"integrate_position", ts>>
      [] a[1] = "integrate_position" -> b = <<"extract_resultants", ts>>
      [] a[1] = "extract_resultants" ->
            Len(Postprocessors) > 0
                /\ b = <<"postprocessor.run(online=True)", Postprocessors[1]>>
      [] a[1] = "postprocessor.run(online=True)" ->
            \E j \in 1..Len(Postprocessors) - 1 :
                /\ a[2] = Postprocessors[j]
                /\ b = <<"postprocessor.run(online=True)", Postprocessors[j + 1]>>
      [] OTHER -> FALSE

\* C15: the calls of a substep come in the order grid update, aero run, force
\* mapping, relaxation, structural run, convergence evaluation; the commit
\* (add_step and overwrite of the last entry of the aero, then of the
\* structural history, then position integration) comes only after the inner
\* loop has exited; resultant extraction and then the postprocessors, once
\* each in the configured order and in online mode, come after the commit;
\* the next outer step, and the end of the run, wait for the last of them.
C15_CallOrder ==
    /\ \A i \in 1..Len(Calls) - 1 : Follows(Calls[i], Calls[i + 1])
    /\ Len(Calls) > 0
        => Calls[1] \in {<<"update_custom_grid", 0>>, <<"aero_solver.add_step", ts>>}
    /\ (\E i \in 1..Len(Calls) : Calls[i][1] = "aero_solver.add_step")
        => obs.exit \in {"converged", "budget", "bound"}
    /\ (pc \in {"outer", "done"} /\ Len(Calls) > 0) => Calls[Len(Calls)] = LastCallOfStep
    /\ pc \in {"outer", "done"} => Len(Calls) > 0 \/ obs.steps_done = 0
    /\ InSubstep => Len(Calls) > 0 \/ pc = "grid"

\* C15 witness: a step of two substeps is complete, MaxPostprocs
\* postprocessors have run after its commit, and another step is to come
C15_Witness ==
    /\ pc = "outer" /\ range_next < range_end /\ obs.steps_done = 1
    /\ Len(Postprocessors) = MaxPostprocs
    /\ Len(Calls) = 6 * 2 + 6 + MaxPostprocs
    /\ Calls[12] = <<"convergence", 1>>
    /\ Calls[13] = <<"aero_solver.add_step", ts>>
    /\ Calls[Len(Calls)] = <<"postprocessor.run(online=True)", MaxPostprocs>>

\* the estimate holds the blend of the mapped forces and the previous ones
\* with coefficient c
BlendedWith(c, estimate) ==
    /\ IsBlend(estimate.steady_applied_forces, c,
               obs.mapped.steady_applied_forces,
               previous_kstep.steady_applied_forces)
    /\ IsBlend(estimate.unsteady_applied_forces, c,
               obs.mapped.unsteady_applied_forces,
               previous_kstep.unsteady_applied_forces)

\* C16: at every substep the coefficient of the blend is the scheduler's
\* factor of k, also for k > 0.8*fsi_substeps and k > 0.9*fsi_substeps; the
\* forces the structural solver is run with, the forces of the estimate the
\* next grid update and aero run are given, and the forces committed are
\* that blend, so the 0.3 and 0.8 assigned afterwards reach neither a blend
\* nor a solver call.
C16_OverrideInert ==
    /\ pc \in {"struct", "conv"} => obs.applied = relaxation_factor(settings, k)
    /\ (pc \in {"struct", "conv", "inner", "grid", "aero"} /\ Len(obs.factors) > 0)
        => BlendedWith(obs.applied, structural_kstep)
    /\ (Committed /\ Len(obs.factors) > 0)
        => BlendedWith(obs.applied, Last(struct_hist))
    /\ \A kk \in 0..Len(obs.factors) - 1 :
          obs.factors[kk + 1] = relaxation_factor(settings, kk)

\* C16 witness: at k > 0.9*fsi_substeps the local factor holds 0.3, the
\* scheduler's factor is another one, and the forces handed to the structural
\* solver are not the blend 0.3 would give
C16_Witness ==
    /\ pc = "struct" /\ 10 * k > 9 * settings.fsi_substeps
    /\ relax_factor = <<3, 10>> /\ obs.applied # <<3, 10>>
    /\ obs.applied = relaxation_factor(settings, k)
    /\ ~BlendedWith(<<3, 10>>, structural_kstep)
    /\ BlendedWith(obs.applied, structural_kstep)

\* C17 as stated: absent divergence run() ends after exactly n_time_steps
\* outer steps; in each outer step the aero and the structural solver run at
\* most max(fsi_substeps, 1) times each and no substep lies past the budget.
C17_TerminatesWithinBudget ==
    obs.exit # "diverged" =>
        /\ pc # "crashed"
        /\ pc = "done" => obs.steps_done = settings.n_time_steps
        /\ obs.steps_done <= settings.n_time_steps
        /\ obs.aero_calls <= Max(settings.fsi_substeps, 1)
        /\ obs.struct_calls <= Max(settings.fsi_substeps, 1)
        /\ InSubstep => k < Max(settings.fsi_substeps, 1)

\* C18: with the unsteady contribution enabled and 1 <= fsi_substeps <= 5 no
\* outer step exits by convergence, whatever residuals and minimum_steps are:
\* a step that leaves the inner loop has run exactly fsi_substeps substeps and
\* ends on the warning, also when ts < 5, where the ramp coefficient is 0 and
\* the unsteady contribution is not applied.
C18_ShortBudgetNeverConverges ==
    (Unsteady /\ settings.fsi_substeps >= 1 /\ settings.fsi_substeps <= 5) =>
        /\ obs.exit # "converged"
        /\ AfterLoop
            => /\ obs.exit = "budget" /\ obs.warnings = 1
               /\ k = settings.fsi_substeps
               /\ obs.aero_calls = settings.fsi_substeps
               /\ obs.struct_calls = settings.fsi_substeps
               /\ obs.evals = settings.fsi_substeps
        /\ (ts < 5 /\ pc \in {"map", "relax", "struct", "conv"})
            => force_coeff = FZero /\ ~unsteady_contribution

\* C18 witness: a step ts < 5 with budget 5 and minimum_steps 0 ends on the
\* warning although its last iterate was within tolerance of the previous one
\* and the unsteady contribution was never applied
C18_Witness ==
    /\ Unsteady /\ settings.fsi_substeps = 5 /\ settings.minimum_steps = 0
    /\ pc = "commit_aero" /\ obs.exit = "budget" /\ ts < 5
    /\ obs.aero_calls = 5 /\ ~unsteady_contribution
    /\ WithinTolerance(structural_kstep, previous_kstep, obs.first.struct)

\* the progress record: outer step, substep count, velocity residual; and the
\* evaluation (outer step, substep) that computed the residual it holds
Reported == progress # <<>>
ReportedStep == progress[1]
ReportedSubsteps == progress[2]
ReportedResidual == progress[3]
ResidualComputedAt == obs.reported_at

\* C19 as stated: the velocity residual and the substep count in the progress
\* record of outer step ts belong to that step: the residual was computed by
\* an evaluation of the inner loop of step ts, never one of an earlier step
\* and never the 0.0 of the constructor.
C19_ResidualOfThisStep ==
    Reported =>
        /\ ResidualComputedAt # <<>>
        /\ ResidualComputedAt[1] = ReportedStep
        /\ ResidualComputedAt[2] <= ReportedSubsteps

\* every entry of history h is still at its index, unchanged, in history g
Keeps(h, g) == Len(g) >= Len(h) /\ \A i \in 1..Len(h) : g[i] = h[i]
Running == pc \notin {"new", "ready"}

\* C20: during run() the core writes only the last entry of each history:
\* committing outer step ts leaves every entry below ts as it was, no
\* statement of the inner loop writes a history entry, and the entries the
\* histories held when run() began, the seed at index 0 among them, are the
\* same afterwards.
C20_OnlyLastEntryWritten ==
    [][ /\ Running
            => /\ Keeps(aero_hist, aero_hist') /\ Keeps(struct_hist, struct_hist')
               /\ Len(aero_hist') <= Len(aero_hist) + 1
               /\ Len(struct_hist') <= Len(struct_hist) + 1
        /\ (Running /\ (InSubstep \/ pc = "inner"))
            => aero_hist' = aero_hist /\ struct_hist' = struct_hist
        /\ (Running /\ pc' = "report")
            => /\ Len(struct_hist) = ts /\ Len(struct_hist') = ts + 1
               /\ \A i \in 1..ts : struct_hist'[i] = struct_hist[i]
               /\ Last(struct_hist') = structural_kstep
               /\ Last(aero_hist') = aero_kstep
        /\ (Running /\ pc' \in {"outer", "done", "aborted", "crashed"})
            => /\ Keeps(obs.run_hist0[1], aero_hist')
               /\ Keeps(obs.run_hist0[2], struct_hist')
      ]_vars

\* C20 witness: a finished run of two steps on histories of MaxInitLen
\* entries still has these entries in place, below the two it committed
C20_Witness ==
    /\ pc = "done" /\ obs.steps_done = 2
    /\ Len(obs.run_hist0[2]) = MaxInitLen /\ Len(struct_hist) = MaxInitLen + 2
    /\ SubSeq(struct_hist, 1, MaxInitLen) = obs.run_hist0[2]
    /\ SubSeq(aero_hist, 1, MaxInitLen) = obs.run_hist0[1]
    /\ struct_hist[1] = SeedStruct(1)
    /\ Last(struct_hist) # struct_hist[MaxInitLen]
    /\ Last(struct_hist) # struct_hist[MaxInitLen + 1]

====
